---- MODULE Spec2Model ----
(***************************************************************************)
(* A model of irma-ansible.py: the IrmaConfig class (construction, parsing *)
(* of the deployment description, rendering of the variables and of the    *)
(* inventory) and the __main__ pipeline that writes the two artifacts,     *)
(* runs ansible-galaxy and ansible-playbook and removes the scratch        *)
(* directory.                                                              *)
(*                                                                         *)
(* Python values are represented as follows.                               *)
(*  - a str built by concatenation is the sequence of its pieces;          *)
(*  - a YAML mapping with optional keys is a record with a field `keys`    *)
(*    (the keys present) next to one field per possible key;               *)
(*  - the free-form ansible_vars mapping is a TLA+ function whose domain   *)
(*    is the set of its keys, wrapped with its Python type (dict / list);  *)
(*  - an insertion-ordered dict is the sequence of its items;              *)
(*  - an exception is a record [type, msg, arg].                           *)
(***************************************************************************)
EXTENDS Integers, Sequences, FiniteSets, TLC

VARIABLES
    profile_file,    \* content of irma-ansible.cfg (environment)
    argv,            \* the command line (environment)
    config_src,      \* content of the YAML file named on the command line
    pc,              \* position of __main__
    type,            \* module-level `type`
    options,         \* argparse result
    conf,            \* the IrmaConfig object
    tmpdir,          \* scratch directory: "none", "exists", "removed"
    files,           \* files written by the run: set of [path, content]
    vars_file,       \* return value of write_ansible_vars
    inventory_file,  \* return value of write_ansible_inventory
    calls,           \* GalaxyCLI / PlaybookCLI runs so far: [cmd, args, rc]
    exit_code,       \* local `exit_code` of __main__
    exc,             \* the exception that terminated the process, if any
    status           \* process exit status once pc = "exited"

vars == <<profile_file, argv, config_src, pc, type, options, conf, tmpdir,
          files, vars_file, inventory_file, calls, exit_code, exc, status>>

\* ------------------------------------------------------------------ bounds
MaxServers == 2

\* --------------------------------------------------------------- constants
WARNING == "# This file is generated automatically. Do not edit it\n"

None == [none |-> TRUE]
NoExc == [type |-> "none", msg |-> "", arg |-> ""]
Raise(t, m, a) == [type |-> t, msg |-> m, arg |-> a]

Has(d, k) == k \in d.keys

\* ------------------------------------------------------- python primitives
\* os.path.basename: what follows the last "/"
RECURSIVE basename(_)
basename(p) ==
    IF \E i \in 1..Len(p) : p[i] = "/"
    THEN basename(Tail(p))
    ELSE p

\* str.split(".")[0]: what precedes the first "."
RECURSIVE split_dot_0(_)
split_dot_0(s) ==
    IF s = <<>> \/ Head(s) = "." THEN <<>>
    ELSE <<Head(s)>> \o split_dot_0(Tail(s))

\* dict wrappers for the free-form vars value
Dict(m) == [kind |-> "dict", m |-> m]
EmptyList == [kind |-> "list", m |-> <<>>]
EmptyMap == [k \in {} |-> TRUE]

\* d[k] = v on a dict
SetItem(m, k, v) == (k :> v) @@ m

\* d.get(k, default)
Get(m, k, default) == IF k \in DOMAIN m THEN m[k] ELSE default

\* truth value of the values the model stores under `monitoring`
Truthy(v) == v = TRUE

\* `except ValueError` of _read: the classes it catches
IsValueError(t) == t \in {"ValueError", "UnicodeDecodeError"}

\* ------------------------------------------------------- IrmaConfig._parse
HostNames(hosts) == {hosts[i].name : i \in 1..Len(hosts)}

\* self.ansible_groups[group].append(server_name) on a defaultdict(list)
AppendMember(groups, group, server_name) ==
    IF \E i \in 1..Len(groups) : groups[i].group = group
    THEN [i \in 1..Len(groups) |->
            IF groups[i].group = group
            THEN [groups[i] EXCEPT !.members = Append(@, server_name)]
            ELSE groups[i]]
    ELSE Append(groups, [group |-> group, members |-> <<server_name>>])

\* for group in server_groups: ...append(server_name)
RECURSIVE AddGroups(_, _, _)
AddGroups(groups, server_groups, server_name) ==
    IF server_groups = <<>> THEN groups
    ELSE AddGroups(AppendMember(groups, Head(server_groups), server_name),
                   Tail(server_groups), server_name)

\* self.ansible_hosts[server_name] = {"address": ..} (+ "windows" under core)
NewHost(profile, server) ==
    [name    |-> server.name,
     address |-> server.ip,
     keys    |-> IF profile = "core" THEN {"address", "windows"} ELSE {"address"},
     windows |-> IF profile = "core"
                 THEN (IF Has(server, "windows") THEN server.windows ELSE FALSE)
                 ELSE FALSE]

\* one iteration of the loop of _parse; st = [exc, hosts, groups]
parse_server(profile, server, st) ==
    IF ~Has(server, "name") THEN [st EXCEPT !.exc = Raise("KeyError", "", "name")]
    ELSE IF ~Has(server, "ip") THEN [st EXCEPT !.exc = Raise("KeyError", "", "ip")]
    ELSE IF ~Has(server, "ansible_groups")
         THEN [st EXCEPT !.exc = Raise("KeyError", "", "ansible_groups")]
    ELSE IF server.name \in HostNames(st.hosts)
         THEN [st EXCEPT !.exc = Raise("IrmaConfigError", "defined twice", server.name)]
    ELSE [exc    |-> NoExc,
          hosts  |-> Append(st.hosts, NewHost(profile, server)),
          groups |-> AddGroups(st.groups, server.ansible_groups, server.name)]

RECURSIVE parse_loop(_, _, _)
parse_loop(profile, servers, st) ==
    IF servers = <<>> \/ st.exc # NoExc THEN st
    ELSE parse_loop(profile, Tail(servers), parse_server(profile, Head(servers), st))

\* _parse: [exc, servers, hosts, groups]
parse(profile, config) ==
    LET st0 == [exc |-> NoExc, hosts |-> <<>>, groups |-> <<>>]
        st  == IF Has(config, "servers")
               THEN parse_loop(profile, config.servers, st0)
               ELSE [st0 EXCEPT !.exc = Raise("KeyError", "", "servers")]
    IN  [exc     |-> st.exc,
         servers |-> IF Has(config, "servers") THEN config.servers ELSE <<>>,
         hosts   |-> st.hosts,
         groups  |-> st.groups]

\* -------------------------------------------------------- IrmaConfig._read
\* open(filename), yaml.load, _parse, and the `except ValueError` clause
read(profile, src) ==
    LET r == CASE src.state = "missing" ->
                    [exc |-> Raise("IOError", "No such file or directory", ""),
                     servers |-> <<>>, hosts |-> <<>>, groups |-> <<>>]
               [] src.state = "badyaml" ->
                    [exc |-> Raise("YAMLError", "could not parse", ""),
                     servers |-> <<>>, hosts |-> <<>>, groups |-> <<>>]
               [] OTHER -> parse(profile, src.doc)
    IN  IF IsValueError(r.exc.type)
        THEN [r EXCEPT !.exc = Raise("IrmaConfigError", r.exc.msg, r.exc.arg)]
        ELSE r

\* ----------------------------------------------------- IrmaConfig.__init__
\* [exc, obj]: obj is the constructed object when exc = NoExc
IrmaConfig(profile, filename, offline, no_vars_address, src) ==
    LET r == read(profile, src)
    IN  [exc |-> r.exc,
         obj |-> [type            |-> profile,
                  offline         |-> offline,
                  no_vars_address |-> no_vars_address,
                  filename        |-> filename,
                  config          |-> src.doc,
                  name            |-> split_dot_0(basename(filename)),
                  servers         |-> r.servers,
                  ansible_hosts   |-> r.hosts,
                  ansible_groups  |-> r.groups]]

\* ------------------------------------------------- IrmaConfig.ansible_vars
\* self.ansible_groups[name] on the defaultdict: the list, [] when absent
Members(groups, name) ==
    IF \E i \in 1..Len(groups) : groups[i].group = name
    THEN (CHOOSE g \in {groups[i] : i \in 1..Len(groups)} : g.group = name).members
    ELSE <<>>

\* ... and the key the lookup leaves behind when it was absent
Touch(groups, name) ==
    IF \E i \in 1..Len(groups) : groups[i].group = name
    THEN groups
    ELSE Append(groups, [group |-> name, members |-> <<>>])

AddressOf(hosts, server_name) ==
    (CHOOSE h \in {hosts[i] : i \in 1..Len(hosts)} : h.name = server_name).address

\* get_server_addr: [exc, addr, groups]
get_server_addr(groups, hosts, name) ==
    LET members == Members(groups, name)
    IN  IF Len(members) = 0
        THEN [exc |-> Raise("IrmaConfigError", "Missing group", name),
              addr |-> "", groups |-> Touch(groups, name)]
        ELSE IF Len(members) > 1
        THEN [exc |-> Raise("IrmaConfigError", "More than one", name),
              addr |-> "", groups |-> groups]
        ELSE [exc |-> NoExc, addr |-> AddressOf(hosts, members[1]), groups |-> groups]

\* if sql_addr != frontend_addr
StandaloneSqlAlways(sql_addr, frontend_addr) == TRUE
StandaloneSql(sql_addr, frontend_addr) == sql_addr # frontend_addr

\* if ansible_vars.get("monitoring", False)
MonitoringEnabledIfPresent(m) == "monitoring" \in DOMAIN m
MonitoringEnabled(m) == Truthy(Get(m, "monitoring", FALSE))

\* The dict ansible_vars() works on is the object stored in
\* self.config["ansible_vars"]: every assignment shows in self.config.
VarsResult(self, e, m, groups) ==
    [exc  |-> e,
     ret  |-> m,
     self |-> [self EXCEPT !.config.ansible_vars = Dict(m),
                           !.ansible_groups = groups]]

\* ansible_vars(): [exc, ret, self], self being the object after the call
ansible_vars(self) ==
    LET av == IF Has(self.config, "ansible_vars")
              THEN self.config.ansible_vars ELSE EmptyList
    IN  IF av.kind # "dict"
        THEN [exc  |-> Raise("TypeError", "list indices must be integers", "offline"),
              ret  |-> EmptyMap,
              self |-> self]
        ELSE
        LET hosts == self.ansible_hosts
            m1    == SetItem(av.m, "offline", self.offline)
            brain == get_server_addr(self.ansible_groups, hosts, "brain")
            m2    == SetItem(m1, "brain_addr", brain.addr)
            fe    == get_server_addr(brain.groups, hosts, "frontend")
            sql   == get_server_addr(fe.groups, hosts, "sql-server")
            m3    == IF StandaloneSql(sql.addr, fe.addr)
                     THEN SetItem(SetItem(m2, "frontend_addr", fe.addr),
                                  "sql_addr", sql.addr)
                     ELSE m2
            mon   == get_server_addr(sql.groups, hosts, "monitoring-core")
            m4    == SetItem(m3, "monitoring_addr", mon.addr)
        IN  IF self.type = "core" /\ ~self.no_vars_address
            THEN IF brain.exc # NoExc THEN VarsResult(self, brain.exc, m1, brain.groups)
                 ELSE IF fe.exc # NoExc THEN VarsResult(self, fe.exc, m2, fe.groups)
                 ELSE IF sql.exc # NoExc THEN VarsResult(self, sql.exc, m2, sql.groups)
                 ELSE IF MonitoringEnabled(m3)
                      THEN IF mon.exc # NoExc
                           THEN VarsResult(self, mon.exc, m3, mon.groups)
                           ELSE VarsResult(self, NoExc, m4, mon.groups)
                      ELSE VarsResult(self, NoExc, m3, sql.groups)
            ELSE VarsResult(self, NoExc, m1, self.ansible_groups)

\* -------------------------------------------- IrmaConfig.ansible_inventory
\* if address in ["localhost", "127.0.0.1"]
LocalAttr(address) ==
    IF address \in {"localhost", "127.0.0.1"}
    THEN <<" ansible_connection=local">> ELSE <<>>

KeyAttr == <<" ansible_ssh_private_key_file=", "'~/.vagrant.d/insecure_private_key'">>

HostLine(profile, h) ==
    (IF profile = "core" /\ h.windows
     THEN <<h.name, " ansible_ssh_host=", h.address, " ansible_ssh_port=5985",
            " ansible_connection=winrm", " ansible_ssh_pass='vagrant'">>
     ELSE <<h.name, " ansible_ssh_host=", h.address>>
              \o LocalAttr(h.address) \o KeyAttr)
    \o <<"\n">>

RECURSIVE HostLines(_, _)
HostLines(profile, hosts) ==
    IF hosts = <<>> THEN <<>>
    ELSE HostLine(profile, Head(hosts)) \o HostLines(profile, Tail(hosts))

Range(s) == {s[i] : i \in 1..Len(s)}

\* for server in set(servers_list): one "<server>\n\n" per distinct member.
\* The language fixes no iteration order for a set, so the text of a group's
\* members is kept as the unordered collection of its pieces.
MemberLines(members) ==
    [unordered |-> {<<server, "\n", "\n">> : server \in Range(members)}]

RECURSIVE GroupSections(_)
GroupSections(groups) ==
    IF groups = <<>> THEN <<>>
    ELSE <<"[", Head(groups).group, "]\n", MemberLines(Head(groups).members)>>
         \o GroupSections(Tail(groups))

\* ansible_inventory()
ansible_inventory(self) ==
    HostLines(self.type, self.ansible_hosts) \o <<"\n\n">>
        \o GroupSections(self.ansible_groups)

\* ----------------------------------------- write_ansible_vars / _inventory
\* paths: [dir, base]; a relative name lands in the working directory
NonePath == [dir |-> "", base |-> <<>>]
InCwd(base) == [dir |-> "cwd", base |-> base]
InTmpdir(base) == [dir |-> "tmpdir", base |-> base]

\* open(dstname, "w") ... write: the file is created or replaced
WriteFile(fs, path, content) ==
    {f \in fs : f.path # path} \cup {[path |-> path, content |-> content]}

\* yaml.dump(.., default_flow_style=False, explicit_start=True)
YamlDump(m) == [explicit_start |-> TRUE, doc |-> m]

\* write_ansible_vars: [exc, self, fs, dstname]. The file is opened and the
\* warning written before ansible_vars() is evaluated.
write_ansible_vars(self, fs, dstname) ==
    LET dst == IF dstname = NonePath
               THEN InCwd(self.name \o <<".vars.yml">>) ELSE dstname
        r   == ansible_vars(self)
    IN  IF r.exc # NoExc
        THEN [exc |-> r.exc, self |-> r.self, dstname |-> NonePath,
              fs |-> WriteFile(fs, dst, <<WARNING>>)]
        ELSE [exc |-> NoExc, self |-> r.self, dstname |-> dst,
              fs |-> WriteFile(fs, dst, <<WARNING, YamlDump(r.ret)>>)]

\* write_ansible_inventory: [fs, dstname]
write_ansible_inventory(self, fs, dstname) ==
    LET dst == IF dstname = NonePath
               THEN InCwd(self.name \o <<".hosts">>) ELSE dstname
    IN  [dstname |-> dst,
         fs |-> WriteFile(fs, dst, <<WARNING, ansible_inventory(self)>>)]

\* ---------------------------------------------------------------- __main__
\* str.rstrip() of the first line of irma-ansible.cfg
RECURSIVE rstrip(_)
rstrip(line) ==
    IF line # <<>> /\ line[Len(line)] \in {"\n", " "}
    THEN rstrip(SubSeq(line, 1, Len(line) - 1))
    ELSE line

\* if type not in ('core', 'kiosk')
ValidProfile(t) == t \in {<<"core">>, <<"kiosk">>}

\* if (options.no_ansible_galaxy and options.no_ansible)
UseDefaultNamesEither(opts) == opts.no_ansible_galaxy \/ opts.no_ansible
UseDefaultNames(opts) == opts.no_ansible_galaxy /\ opts.no_ansible

\* ansible_vars_path, inventory_path as passed to the two writers
DstPaths(opts) ==
    IF UseDefaultNames(opts)
    THEN [vars |-> NonePath, inventory |-> NonePath]
    ELSE [vars |-> InTmpdir(<<"vars.yml">>), inventory |-> InTmpdir(<<"inventory">>)]

\* shutil.rmtree(dir, ignore_errors=True)
rmtree(fs) == {f \in fs : f.path.dir # "tmpdir"}

\* if exit_code: clean_and_exit(tmpdir, exit_code)
GalaxyFailedNever(rc) == FALSE
GalaxyFailed(rc) == rc # 0

GalaxyArgs == <<"ansible-galaxy", "install", "-r", "ansible-requirements.yml", "--force">>

PlaybookArgs(opts, inv, varsf) ==
    <<"ansible-playbook", "-i", "default_groups", "-i", inv, "-e", <<"@", varsf>>>>
        \o (IF "-u" \notin Range(opts.ansible_args) THEN <<"-u", "vagrant">> ELSE <<>>)
        \o (IF opts.offline
            THEN <<"--module-path",
                   "ansible_plugins/modules:offline/ansible_modules/offline">>
            ELSE <<>>)
        \o opts.ansible_args

\* exit codes the two external commands are taken to return
ExitCodes == {0, 1, 2}

\* lines 157-165: read the profile selector
ReadProfile ==
    /\ pc = "start"
    /\ IF ~profile_file.exists
       THEN /\ status' = 1
            /\ pc' = "exited"
            /\ type' = type
       ELSE LET t == rstrip(profile_file.line)
            IN  /\ type' = t
                /\ IF ValidProfile(t)
                   THEN pc' = "parse_args" /\ status' = status
                   ELSE pc' = "exited" /\ status' = 1
    /\ UNCHANGED <<profile_file, argv, config_src, options, conf, tmpdir, files,
                   vars_file, inventory_file, calls, exit_code, exc>>

\* lines 166-185: argparse
ParseArgs ==
    /\ pc = "parse_args"
    /\ options' = argv
    /\ pc' = "construct"
    /\ UNCHANGED <<profile_file, argv, config_src, type, conf, tmpdir, files,
                   vars_file, inventory_file, calls, exit_code, exc, status>>

\* lines 186-187: conf = IrmaConfig(...); an exception ends the process
Construct ==
    /\ pc = "construct"
    /\ LET r == IrmaConfig(type[1], options.config_file, options.offline,
                           options.no_vars_address, config_src)
       IN  IF r.exc # NoExc
           THEN /\ exc' = r.exc
                /\ status' = 1
                /\ pc' = "exited"
                /\ conf' = conf
           ELSE /\ conf' = r.obj
                /\ pc' = "mkdtemp"
                /\ UNCHANGED <<exc, status>>
    /\ UNCHANGED <<profile_file, argv, config_src, type, options, tmpdir, files,
                   vars_file, inventory_file, calls, exit_code>>

\* line 188: tmpdir = tempfile.mkdtemp()
Mkdtemp ==
    /\ pc = "mkdtemp"
    /\ tmpdir' = "exists"
    /\ pc' = "write_vars"
    /\ UNCHANGED <<profile_file, argv, config_src, type, options, conf, files,
                   vars_file, inventory_file, calls, exit_code, exc, status>>

\* lines 189-195: vars_file = conf.write_ansible_vars(dstname=ansible_vars_path)
WriteVars ==
    /\ pc = "write_vars"
    /\ LET r == write_ansible_vars(conf, files, DstPaths(options).vars)
       IN  /\ conf' = r.self
           /\ files' = r.fs
           /\ IF r.exc # NoExc
              THEN /\ exc' = r.exc
                   /\ status' = 1
                   /\ pc' = "exited"
                   /\ vars_file' = vars_file
              ELSE /\ vars_file' = r.dstname
                   /\ pc' = "write_inventory"
                   /\ UNCHANGED <<exc, status>>
    /\ UNCHANGED <<profile_file, argv, config_src, type, options, tmpdir,
                   inventory_file, calls, exit_code>>

\* lines 196-197: inventory_file = conf.write_ansible_inventory(...); exit_code = 0
WriteInventory ==
    /\ pc = "write_inventory"
    /\ LET r == write_ansible_inventory(conf, files, DstPaths(options).inventory)
       IN  /\ files' = r.fs
           /\ inventory_file' = r.dstname
    /\ exit_code' = 0
    /\ pc' = "galaxy"
    /\ UNCHANGED <<profile_file, argv, config_src, type, options, conf, tmpdir,
                   vars_file, calls, exc, status>>

\* lines 199-209: ansible-galaxy, and clean_and_exit when it fails
Galaxy ==
    /\ pc = "galaxy"
    /\ IF options.no_ansible_galaxy
       THEN /\ pc' = "playbook"
            /\ UNCHANGED <<calls, exit_code, tmpdir, files, status>>
       ELSE \E rc \in ExitCodes :
            /\ calls' = Append(calls, [cmd |-> "galaxy", args |-> GalaxyArgs, rc |-> rc])
            /\ exit_code' = rc
            /\ IF GalaxyFailed(rc)
               THEN /\ files' = rmtree(files)
                    /\ tmpdir' = "removed"
                    /\ status' = rc
                    /\ pc' = "exited"
               ELSE /\ pc' = "playbook"
                    /\ UNCHANGED <<tmpdir, files, status>>
    /\ UNCHANGED <<profile_file, argv, config_src, type, options, conf,
                   vars_file, inventory_file, exc>>

\* lines 211-226: ansible-playbook
Playbook ==
    /\ pc = "playbook"
    /\ IF options.no_ansible
       THEN UNCHANGED <<calls, exit_code>>
       ELSE \E rc \in ExitCodes :
            /\ calls' = Append(calls, [cmd  |-> "playbook",
                                       args |-> PlaybookArgs(options, inventory_file, vars_file),
                                       rc   |-> rc])
            /\ exit_code' = rc
    /\ pc' = "cleanup"
    /\ UNCHANGED <<profile_file, argv, config_src, type, options, conf, tmpdir,
                   files, vars_file, inventory_file, exc, status>>

\* line 228 and lines 151-153: clean_and_exit(tmpdir, exit_code)
CleanAndExit ==
    /\ pc = "cleanup"
    /\ files' = rmtree(files)
    /\ tmpdir' = "removed"
    /\ status' = exit_code
    /\ pc' = "exited"
    /\ UNCHANGED <<profile_file, argv, config_src, type, options, conf,
                   vars_file, inventory_file, calls, exit_code, exc>>

Next ==
    \/ ReadProfile
    \/ ParseArgs
    \/ Construct
    \/ Mkdtemp
    \/ WriteVars
    \/ WriteInventory
    \/ Galaxy
    \/ Playbook
    \/ CleanAndExit

\* ------------------------------------------------------------------ inputs
SeqsUpTo(S, n) == UNION {[1..k -> S] : k \in 0..n}

\* a server entry of the YAML file
Server(name, ip, groups, keys) ==
    [keys |-> keys, name |-> name, ip |-> ip, ansible_groups |-> groups,
     windows |-> "windows" \in keys]

ServerKeys == {"name", "ip", "ansible_groups"}

\* the ansible_vars mappings of the inputs: `monitoring` absent, true or
\* false, and the derived keys optionally supplied by the user
UserAddr == "192.168.0.9"
OptKey(present, k, v) == IF present THEN k :> v ELSE EmptyMap
InputVars ==
    {OptKey(mon # "absent", "monitoring", mon = "true")
        @@ OptKey(ma, "monitoring_addr", UserAddr)
        @@ OptKey(fa, "frontend_addr", UserAddr) :
     mon \in {"absent", "true", "false"}, ma \in BOOLEAN, fa \in BOOLEAN}

Doc(keys, servers, av) == [keys |-> keys, servers |-> servers, ansible_vars |-> av]
NoDoc == Doc({}, <<>>, EmptyList)
Source(state, doc) == [state |-> state, doc |-> doc]

\* Inputs of the runs that exercise the pipeline: well-formed and
\* ill-formed server entries, every combination of the flags.
PipelineServers ==
    LET s1 == Server("s1", "10.0.0.1", <<"brain", "frontend", "sql-server">>, ServerKeys)
    IN  {s1,
         Server("s2", "127.0.0.1", <<"monitoring-core">>, ServerKeys \cup {"windows"}),
         [s1 EXCEPT !.keys = @ \ {"name"}],
         [s1 EXCEPT !.keys = @ \ {"ip"}],
         [s1 EXCEPT !.keys = @ \ {"ansible_groups"}]}

PipelineSources ==
    {Source("missing", NoDoc), Source("badyaml", NoDoc),
     Source("ok", Doc({"ansible_vars"}, <<>>, Dict(EmptyMap)))}
    \cup {Source("ok", Doc({"servers", "ansible_vars"}, ss, Dict("monitoring" :> mon))) :
            ss \in SeqsUpTo(PipelineServers, MaxServers), mon \in BOOLEAN}
    \cup {Source("ok", Doc({"servers"}, ss, EmptyList)) :
            ss \in SeqsUpTo(PipelineServers, MaxServers)}

ProfileFiles ==
    {[exists |-> FALSE, line |-> <<>>],
     [exists |-> TRUE, line |-> <<"core", "\n">>],
     [exists |-> TRUE, line |-> <<"kiosk">>],
     [exists |-> TRUE, line |-> <<"core", " ", "kiosk", "\n">>],
     [exists |-> TRUE, line |-> <<>>]}

ConfigFiles == {<<"prod", ".", "yml">>, <<"conf", "/", "lab", ".", "site", ".", "yml">>}

PipelineArgv ==
    [no_ansible : BOOLEAN, no_ansible_galaxy : BOOLEAN, no_vars_address : BOOLEAN,
     offline : BOOLEAN, config_file : ConfigFiles,
     ansible_args : {<<>>, <<"-u", "root">>}]

\* Inputs of the runs that exercise the rendering of the vars: deployments
\* of distinctly named servers over every choice of address and group list,
\* every ansible_vars mapping of InputVars, and no ansible_vars key at all.
GroupLists ==
    {<<"brain", "brain">>, <<"brain", "frontend">>,
     <<"brain", "frontend", "sql-server">>, <<"sql-server", "monitoring-core">>}
Addresses == {"10.0.0.1", "10.0.0.2"}
ServerName(i) == "s" \o ToString(i)

RenderServerLists ==
    {[i \in 1..Len(ss) |-> Server(ServerName(i), ss[i][1], ss[i][2], ServerKeys)] :
        ss \in SeqsUpTo(Addresses \X GroupLists, MaxServers)}

RenderSources ==
    {Source("ok", Doc({"servers", "ansible_vars"}, ss, Dict(m))) :
        ss \in RenderServerLists, m \in InputVars}
    \cup {Source("ok", Doc({"servers"}, ss, EmptyList)) : ss \in RenderServerLists}

RenderArgv ==
    [no_ansible : {FALSE}, no_ansible_galaxy : {FALSE}, no_vars_address : BOOLEAN,
     offline : BOOLEAN, config_file : {<<"prod", ".", "yml">>},
     ansible_args : {<<>>}]

\* ----------------------------------------------------------- specification
Boot ==
    /\ pc = "start"
    /\ type = <<>>
    /\ options = None
    /\ conf = None
    /\ tmpdir = "none"
    /\ files = {}
    /\ vars_file = NonePath
    /\ inventory_file = NonePath
    /\ calls = <<>>
    /\ exit_code = 0
    /\ exc = NoExc
    /\ status = -1

Init ==
    /\ profile_file \in ProfileFiles
    /\ argv \in PipelineArgv
    /\ config_src \in PipelineSources
    /\ Boot

InitRender ==
    /\ profile_file \in {f \in ProfileFiles : ValidProfile(rstrip(f.line))}
    /\ argv \in RenderArgv
    /\ config_src \in RenderSources
    /\ Boot

Spec == Init /\ [][Next]_vars

SpecRender == InitRender /\ [][Next]_vars

\* ============================================================== properties
\* What the input file says, read off the file and not off the parsed object.
SrcDoc == config_src.doc
SrcServers == IF Has(SrcDoc, "servers") THEN SrcDoc.servers ELSE <<>>

\* the entries of the file that carry a group tag
Carriers(tag) ==
    {i \in 1..Len(SrcServers) :
        /\ Has(SrcServers[i], "ansible_groups")
        /\ tag \in Range(SrcServers[i].ansible_groups)}

\* two entries of the file have the same name
DuplicateNames ==
    \E i, j \in 1..Len(SrcServers) :
        /\ i # j
        /\ Has(SrcServers[i], "name") /\ Has(SrcServers[j], "name")
        /\ SrcServers[i].name = SrcServers[j].name

\* some entry of the file lacks one of the three required keys
LacksKey == \E i \in 1..Len(SrcServers) : ~(ServerKeys \subseteq SrcServers[i].keys)

\* the constructor of IrmaConfig has run (and returned or raised)
Constructed == pc \notin {"start", "parse_args", "construct"} /\ options # None

\* the vars file of this run is on disk, complete
VarsOnDisk ==
    /\ vars_file # NonePath
    /\ \E f \in files : f.path = vars_file /\ Len(f.content) = 2

\* the mapping ansible_vars() returned, as dumped into the vars file
Returned == (CHOOSE f \in files : f.path = vars_file).content[2].doc

\* the ansible_vars mapping of the input file
InVars == SrcDoc.ansible_vars.m

AddressVarsOn == type = <<"core">> /\ ~options.no_vars_address

\* the address of the one entry carrying a tag
ResolvedAddr(tag) == SrcServers[CHOOSE i \in Carriers(tag) : TRUE].ip

GalaxyRuns == {i \in 1..Len(calls) : calls[i].cmd = "galaxy"}
PlaybookRuns == {i \in 1..Len(calls) : calls[i].cmd = "playbook"}

\* C1: once the scratch directory has been created, it no longer exists when
\* the process has terminated, be it normally, after a failing ansible-galaxy
\* or ansible-playbook, or by an IrmaConfigError of the rendering of the vars.
C1_ScratchRemovedOnExit ==
    (/\ pc = "exited"
     /\ tmpdir # "none"
     /\ exc.type \in {"none", "IrmaConfigError"}) => tmpdir = "removed"

\* C2: a failing ansible-galaxy ends the run at once, ansible-playbook is not
\* invoked and the process exits with galaxy's code; with no failing step the
\* process exits with 0; when only ansible-playbook fails, with its code.
C2_ExitCodePropagated ==
    /\ \A i \in GalaxyRuns :
          calls[i].rc # 0 =>
              /\ PlaybookRuns = {}
              /\ pc = "exited"
              /\ status = calls[i].rc
    /\ (pc = "exited" /\ exc = NoExc /\ Constructed) =>
          /\ (\A i \in 1..Len(calls) : calls[i].rc = 0) => status = 0
          /\ \A i \in PlaybookRuns : calls[i].rc # 0 => status = calls[i].rc

C2_Witness ==
    /\ Constructed
    /\ pc = "exited"
    /\ ~options.no_ansible
    /\ GalaxyRuns = {1}
    /\ calls[1].rc = 2
    /\ PlaybookRuns = {}
    /\ status = 2
    /\ tmpdir = "removed"

\* C3: an input with two servers of the same name makes the constructor
\* raise IrmaConfigError, before the scratch directory exists and before
\* any file is written.
C3_DuplicateNamesRaiseConfigError ==
    (Constructed /\ DuplicateNames) =>
        /\ exc.type = "IrmaConfigError"
        /\ tmpdir = "none"
        /\ files = {}

\* C4: get_server_addr raises for a tag only if zero or several servers
\* carry it, and every tag it resolved is carried by exactly one server.
C4_SingletonResolutionExact ==
    /\ (exc.type = "IrmaConfigError" /\ exc.msg \in {"Missing group", "More than one"})
          => Cardinality(Carriers(exc.arg)) # 1
    /\ (VarsOnDisk /\ AddressVarsOn) =>
          \A tag \in {"brain", "frontend", "sql-server"} : Cardinality(Carriers(tag)) = 1

\* the condition C5 names
MonitoringRequested ==
    /\ "monitoring" \in DOMAIN InVars
    /\ InVars["monitoring"] = TRUE
    /\ AddressVarsOn

\* C5 (as claimed): monitoring_addr is a key of the returned mapping iff
\* monitoring is present and truthy in the input vars, the profile is core
\* and address vars are not suppressed.
C5_MonitoringAddrIff ==
    VarsOnDisk => ("monitoring_addr" \in DOMAIN Returned <=> MonitoringRequested)

\* C5 (amended): monitoring_addr is a key of the returned mapping iff the
\* condition above holds or the input vars already have the key.
C5_MonitoringAddrIffOrSupplied ==
    VarsOnDisk =>
        ("monitoring_addr" \in DOMAIN Returned
            <=> (MonitoringRequested \/ "monitoring_addr" \in DOMAIN InVars))

C5_Witness ==
    /\ VarsOnDisk
    /\ MonitoringRequested
    /\ "monitoring_addr" \notin DOMAIN InVars
    /\ "monitoring_addr" \in DOMAIN Returned
    /\ Returned["monitoring_addr"] = ResolvedAddr("monitoring-core")

\* frontend and sql-server each resolve to one server, under core with
\* address vars, and ansible_vars() has returned
SqlResolved ==
    /\ VarsOnDisk
    /\ AddressVarsOn
    /\ Cardinality(Carriers("frontend")) = 1
    /\ Cardinality(Carriers("sql-server")) = 1

BothSet ==
    /\ {"frontend_addr", "sql_addr"} \subseteq DOMAIN Returned
    /\ Returned["frontend_addr"] = ResolvedAddr("frontend")
    /\ Returned["sql_addr"] = ResolvedAddr("sql-server")

\* C6 (as claimed): equal addresses: neither frontend_addr nor sql_addr is in
\* the returned vars; different addresses: both are, with the two addresses.
C6_SqlAddrs ==
    SqlResolved =>
        IF ResolvedAddr("frontend") = ResolvedAddr("sql-server")
        THEN {"frontend_addr", "sql_addr"} \cap DOMAIN Returned = {}
        ELSE BothSet

\* C6 (amended): equal addresses: frontend_addr and sql_addr are in the
\* returned vars exactly as the input vars supplied them (absent when not
\* supplied); different addresses: both are, with the two addresses.
C6_SqlAddrsOrSupplied ==
    SqlResolved =>
        IF ResolvedAddr("frontend") = ResolvedAddr("sql-server")
        THEN \A k \in {"frontend_addr", "sql_addr"} :
                /\ k \in DOMAIN Returned <=> k \in DOMAIN InVars
                /\ k \in DOMAIN Returned => Returned[k] = InVars[k]
        ELSE BothSet

C6_Witness ==
    /\ SqlResolved
    /\ Carriers("frontend") # Carriers("sql-server")
    /\ ResolvedAddr("frontend") = ResolvedAddr("sql-server")
    /\ {"frontend_addr", "sql_addr"} \cap DOMAIN Returned = {}
    /\ "brain_addr" \in DOMAIN Returned

\* C7: loading fails with IrmaConfigError when the file cannot be opened or
\* parsed, when an entry lacks name, ip or ansible_groups, and when two
\* servers share a name.
C7_LoadFailsWithConfigError ==
    (Constructed /\ (config_src.state # "ok" \/ LacksKey \/ DuplicateNames))
        => exc.type = "IrmaConfigError"

BothDisabled == options.no_ansible_galaxy /\ options.no_ansible

\* C8: the artifacts are written in the working directory, as <name>.vars.yml
\* and <name>.hosts, iff both steps are disabled; otherwise in the scratch
\* directory as vars.yml and inventory, and nothing in the working directory;
\* ansible-playbook is passed the paths that were written.
C8_ArtifactPaths ==
    /\ \A f \in files :
          f.path.dir = "cwd" <=> BothDisabled
    /\ vars_file # NonePath =>
          /\ vars_file = IF BothDisabled THEN InCwd(conf.name \o <<".vars.yml">>)
                                         ELSE InTmpdir(<<"vars.yml">>)
          /\ (tmpdir = "exists" \/ BothDisabled) => \E f \in files : f.path = vars_file
    /\ inventory_file # NonePath =>
          /\ inventory_file = IF BothDisabled THEN InCwd(conf.name \o <<".hosts">>)
                                              ELSE InTmpdir(<<"inventory">>)
          /\ (tmpdir = "exists" \/ BothDisabled) => \E f \in files : f.path = inventory_file
          /\ {f.path : f \in files} \subseteq {vars_file, inventory_file}
    /\ \A i \in PlaybookRuns :
          /\ calls[i].args[5] = inventory_file
          /\ calls[i].args[7] = <<"@", vars_file>>
          /\ {vars_file, inventory_file} = {InTmpdir(<<"vars.yml">>), InTmpdir(<<"inventory">>)}

C8_Witness ==
    /\ Constructed
    /\ pc = "exited"
    /\ exc = NoExc
    /\ BothDisabled
    /\ conf.name = <<"lab">>
    /\ {f.path : f \in files} = {InCwd(<<"lab", ".vars.yml">>), InCwd(<<"lab", ".hosts">>)}
    /\ tmpdir = "removed"

\* C9: rendering the vars leaves the parsed deployment as it was: the vars
\* mapping held by the object equals the one read from the file.
C9_ConfigUnchangedByRender ==
    conf # None => conf.config = SrcDoc

\* the group listed exactly once over the whole file: the lookup succeeds
ListedOnce(tag) ==
    Cardinality(UNION {{<<i, j>> : j \in {k \in DOMAIN SrcServers[i].ansible_groups :
                                            SrcServers[i].ansible_groups[k] = tag}} :
                       i \in 1..Len(SrcServers)}) = 1

ValidDeployment ==
    AddressVarsOn => \A tag \in {"brain", "frontend", "sql-server"} : ListedOnce(tag)

\* C10: without an ansible_vars key, ansible_vars() completes on every
\* valid deployment; under kiosk it returns exactly {offline: <offline>}.
C10_VarsKeyOptional ==
    (/\ conf # None
     /\ ~Has(SrcDoc, "ansible_vars")
     /\ ValidDeployment
     /\ pc \notin {"mkdtemp", "write_vars"}) =>
        /\ exc = NoExc
        /\ (type = <<"kiosk">> /\ VarsOnDisk) => Returned = ("offline" :> options.offline)

====
